---- MODULE Spec2Model ----
(***************************************************************************)
(* FlowyDocumentManager (flowy-document/src/manager.rs): the registry of   *)
(* open document editors (document_handlers), the registry of their        *)
(* websocket receivers (ws_data_receivers), and the calls that read and    *)
(* write them concurrently: open_document, close_document, delete,         *)
(* receive_ws_data, receive_local_delta, reset_with_revisions, and the     *)
(* task init spawns to forward connection states.  Every call runs in its  *)
(* own task; a task takes one step per access to a DashMap, so calls       *)
(* interleave between accesses the way threads of the runtime do.          *)
(*                                                                         *)
(* Spec is the life cycle of the two registries; SpecEdit adds the local   *)
(* edits and the resets of the revision history; SpecWs adds the           *)
(* forwarding of connection states.                                        *)
(***************************************************************************)
EXTENDS Integers, FiniteSets, Sequences, TLC

\* Bounds of the model.
MaxDocs == 2
MaxTasks == 2
MaxSessions == 2
MaxLen == 2         \* deltas in a document, revisions in a history
MaxCalls == 3  \* calls of receive_local_delta and reset_with_revisions
MaxInits == 2       \* calls of init
MaxStates == 2      \* connection states the transport publishes

Docs == 1 .. MaxDocs
Tasks == 1 .. MaxTasks
Sessions == 1 .. MaxSessions
Listeners == 1 .. MaxInits

\* Option::None of a map lookup, and "no editor" in a task's local slot.
None == 0

VARIABLES
    inner,              \* DocumentEditorHandlers.inner : doc_id -> editor
    ws_data_receivers,  \* doc_id -> receiver; a receiver is named by its editor
    sessDoc,            \* editor -> doc_id it was constructed for (None: not constructed)
    stopped,            \* editors whose stop() has been invoked
    pc,                 \* task -> position in its call
    op,                 \* task -> the call it runs
    doc,                \* task -> doc_id argument (object_id of the envelope)
    editor,             \* task -> local Arc<ClientDocumentEditor> / handler
    res,                \* task -> result of the call
    added,              \* task -> the call has inserted a registry entry
    logged,             \* task -> what the call reported through tracing::error!
    lastOpen,           \* doc_id -> editor returned by the latest open with no remove step since
    prevOpen,           \* task -> lastOpen[doc] when the call started
    closedSess,         \* doc_id -> editor returned by an open that a later, returned close followed
    snap,               \* task -> close: lastOpen at its start; open: closedSess at its start
    noOpenSince,        \* doc_id -> no open has started since the last close returned (or ever)
    during,             \* task -> close/delete: the opens of doc_id in flight when it started
    content,            \* editor -> its document, the deltas composed into it
    revs,               \* doc_id -> the persisted revision history of (user_id, doc_id)
    arg,                \* task -> delta_json of the DocumentDelta / revisions of the reset
    out,                \* task -> the DocumentDelta returned, if any
    resetDone,          \* doc_id -> revisions of the latest returned reset, if no write followed
    seenReset,          \* task -> resetDone[doc] when the call started
    calls,              \* number of receive_local_delta and reset_with_revisions calls made
    alive,              \* the manager has not been dropped
    lpc,                \* listener -> position of the task spawned by the n-th init
    queue,              \* listener -> states its subscription holds, not yet received
    published,          \* number of states the transport has published
    insertedAt,         \* editor -> states published when its receiver was inserted
    delivered           \* editor -> states its receiver got through connect_state_changed

regs == <<inner, ws_data_receivers>>
world == <<sessDoc, stopped>>
locals == <<pc, op, doc, editor, res, added, logged>>
history == <<lastOpen, prevOpen, closedSess, snap, noOpenSince>>
edits == <<content, revs, arg, out, resetDone, seenReset, calls>>
wsvars == <<alive, lpc, queue, published, insertedAt, delivered>>
vars == <<inner, ws_data_receivers, sessDoc, stopped,
          pc, op, doc, editor, res, added, logged,
          lastOpen, prevOpen, closedSess, snap, noOpenSince, during,
          content, revs, arg, out, resetDone, seenReset, calls,
          alive, lpc, queue, published, insertedAt, delivered>>

Errors == {"err_db_pool", "err_token", "err_user_id", "err_record_not_found",
           "err_compose", "err_document_json", "err_reset_object"}

(***************************************************************************)
(* DashMap and DocumentEditorHandlers, as functions on the map's value.    *)
(***************************************************************************)
contains(m, d) == m[d] # None

get(m, d) == m[d]

insert(m, d, e) == [m EXCEPT ![d] = e]

remove(m, d) == [m EXCEPT ![d] = None]

\* The Ref that receive_ws_data holds on ws_data_receivers while it awaits the
\* handler: a write to the same key waits for it. (A DashMap locks by shard;
\* the keys of the model are taken to lie in different shards.)
RefHeld(d) == \E u \in Tasks : op[u] = "receive_ws_data" /\ pc[u] = "handler" /\ doc[u] = d

\* DocumentRevisionCloudServiceImpl::fetch_object: read_document answers
\* Some(doc), and the fetch yields one revision, or None, and it fails.
fetch_object(read_document) ==
    IF read_document = "Some" THEN "ok" ELSE "err_record_not_found"

\* The calls that go through get_editor.
Openers == {"open_document", "receive_local_delta"}

\* The calls with an open of doc_id d in flight: past the cache miss, before
\* the last insert.
OpensInFlight(d) ==
    {u \in Tasks :
        op[u] \in Openers /\ doc[u] = d /\ pc[u] \in {"new", "ws_insert", "handlers_insert"}}

\* The operations a delta is made of.
Tokens == {"a", "b"}

\* The sequences over S of length n, and of length at most n.
RECURSIVE SeqsOfLen(_, _)
SeqsOfLen(S, n) ==
    IF n = 0 THEN {<<>>}
    ELSE {Append(q, x) : q \in SeqsOfLen(S, n - 1), x \in S}

SeqsUpTo(S, n) == UNION {SeqsOfLen(S, k) : k \in 0 .. n}

\* DocumentDelta::delta_json of a local edit: the empty delta or one operation.
Deltas == SeqsUpTo(Tokens, 1)

\* RepeatedRevision: an ordered list of revisions, each carrying one operation.
RevLists == SeqsUpTo(Tokens, MaxLen)

\* ClientDocumentEditor::compose_local_delta on a document: the delta's
\* operations follow the document's; the empty delta changes nothing.
compose(c, delta) == c \o delta

\* ClientDocumentEditor::document_json: the document in full.
document_json(c) == c

\* The document a revision history yields: its revisions composed in their
\* order onto the empty document.
RECURSIVE Apply(_)
Apply(rs) ==
    IF rs = <<>> THEN <<>>
    ELSE compose(Apply(SubSeq(rs, 1, Len(rs) - 1)), <<rs[Len(rs)]>>)

\* The editors not yet constructed; construction takes the least.
Unused == {s \in Sessions : sessDoc[s] = None}
Fresh == CHOOSE s \in Unused : \A u \in Unused : s <= u

\* DocumentUser: db_pool(), token() and user_id() each succeed or fail; the
\* first failing one, in the order get_editor and make_editor call them.
UserResult(dbOk, tokenOk, userOk) ==
    IF ~dbOk THEN "err_db_pool"
    ELSE IF ~tokenOk THEN "err_token"
    ELSE IF ~userOk THEN "err_user_id"
    ELSE "ok"

Init ==
    /\ inner = [d \in Docs |-> None]
    /\ ws_data_receivers = [d \in Docs |-> None]
    /\ sessDoc = [s \in Sessions |-> None]
    /\ stopped = {}
    /\ pc = [t \in Tasks |-> "idle"]
    /\ op = [t \in Tasks |-> "none"]
    /\ doc = [t \in Tasks |-> None]
    /\ editor = [t \in Tasks |-> None]
    /\ res = [t \in Tasks |-> "none"]
    /\ added = [t \in Tasks |-> FALSE]
    /\ logged = [t \in Tasks |-> "none"]
    /\ lastOpen = [d \in Docs |-> None]
    /\ prevOpen = [t \in Tasks |-> None]
    /\ closedSess = [d \in Docs |-> None]
    /\ snap = [t \in Tasks |-> None]
    /\ noOpenSince = [d \in Docs |-> TRUE]
    /\ during = [t \in Tasks |-> {}]
    /\ content = [s \in Sessions |-> <<>>]
    /\ revs = [d \in Docs |-> <<>>]
    /\ arg = [t \in Tasks |-> <<>>]
    /\ out = [t \in Tasks |-> {}]
    /\ resetDone = [d \in Docs |-> {}]
    /\ seenReset = [t \in Tasks |-> {}]
    /\ calls = 0
    /\ alive = TRUE
    /\ lpc = [l \in Listeners |-> "unspawned"]
    /\ queue = [l \in Listeners |-> <<>>]
    /\ published = 0
    /\ insertedAt = [s \in Sessions |-> 0]
    /\ delivered = [s \in Sessions |-> <<>>]

\* A task finishes its call with result r.
Finish(t, r) ==
    /\ pc' = [pc EXCEPT ![t] = "done"]
    /\ res' = [res EXCEPT ![t] = r]

(***************************************************************************)
(* open_document -> get_editor -> make_editor                              *)
(***************************************************************************)

\* get_editor(doc_id), to its first await: the editor is looked up
\* (DocumentEditorHandlers::get, its contains test); on a miss the user is
\* asked for db_pool, token and user_id and the construction starts.
get_editor(t, d) ==
    /\ doc' = [doc EXCEPT ![t] = d]
    /\ prevOpen' = [prevOpen EXCEPT ![t] = lastOpen[d]]
    /\ snap' = [snap EXCEPT ![t] = closedSess[d]]
    /\ noOpenSince' = [noOpenSince EXCEPT ![d] = FALSE]
    /\ IF contains(inner, d)
       THEN /\ pc' = [pc EXCEPT ![t] = "get"]
            /\ UNCHANGED res
       ELSE \E dbOk, tokenOk, userOk \in BOOLEAN :
              LET r == UserResult(dbOk, tokenOk, userOk) IN
              IF r = "ok"
              THEN /\ pc' = [pc EXCEPT ![t] = "new"]
                   /\ UNCHANGED res
              ELSE Finish(t, r)
    /\ UNCHANGED <<regs, world, editor, added, logged, lastOpen, closedSess, during>>
    /\ UNCHANGED <<content, revs, out, resetDone, wsvars>>

\* get_editor returns Ok(editor): open_document returns it, and
\* receive_local_delta goes on to compose its delta.
GetEditorReturns(t) ==
    IF op[t] = "open_document"
    THEN Finish(t, "ok")
    ELSE pc' = [pc EXCEPT ![t] = "compose"] /\ UNCHANGED res

\* open_document(doc_id) is called.
open_document(t) ==
    /\ pc[t] = "idle"
    /\ op' = [op EXCEPT ![t] = "open_document"]
    /\ \E d \in Docs : get_editor(t, d)
    /\ UNCHANGED <<arg, seenReset, calls>>

\* get_editor, cache hit: DocumentEditorHandlers::get reads the entry it
\* tested for and unwraps it; the entry may be gone by now.
get_editor_hit(t) ==
    /\ op[t] \in Openers /\ pc[t] = "get"
    /\ IF contains(inner, doc[t])
       THEN /\ editor' = [editor EXCEPT ![t] = get(inner, doc[t])]
            /\ GetEditorReturns(t)
            /\ lastOpen' = [lastOpen EXCEPT ![doc[t]] = get(inner, doc[t])]
       ELSE /\ Finish(t, "panic")
            /\ UNCHANGED <<editor, lastOpen>>
    /\ UNCHANGED <<regs, world, op, doc, added, logged, prevOpen, closedSess, snap, noOpenSince>>
    /\ UNCHANGED <<during, edits, wsvars>>

\* make_editor with the receiver registered before the construction is known
\* to have succeeded: a failed construction leaves the entry behind.
make_editor_new_registers_first(t) ==
    /\ op[t] \in Openers /\ pc[t] = "new"
    /\ Unused # {}
    /\ sessDoc' = [sessDoc EXCEPT ![Fresh] = doc[t]]
    /\ \E read_document \in {"Some", "None"} :
        IF fetch_object(read_document) = "ok"
        THEN /\ editor' = [editor EXCEPT ![t] = Fresh]
             /\ pc' = [pc EXCEPT ![t] = "ws_insert"]
             /\ UNCHANGED <<res, ws_data_receivers, added>>
        ELSE /\ ~RefHeld(doc[t])
             /\ ws_data_receivers' = insert(ws_data_receivers, doc[t], Fresh)
             /\ added' = [added EXCEPT ![t] = TRUE]
             /\ Finish(t, fetch_object(read_document))
             /\ UNCHANGED editor
    /\ UNCHANGED <<inner, stopped, op, doc, logged, history, during, edits, wsvars>>

\* make_editor: ClientDocumentEditor::new(...).await? - the construction
\* either fails, and make_editor returns the error, or yields a new editor.
make_editor_new(t) ==
    /\ op[t] \in Openers /\ pc[t] = "new"
    /\ \E read_document \in {"Some", "None"} :
        IF fetch_object(read_document) = "ok"
        THEN /\ Unused # {}
             /\ editor' = [editor EXCEPT ![t] = Fresh]
             /\ sessDoc' = [sessDoc EXCEPT ![Fresh] = doc[t]]
             /\ content' = [content EXCEPT ![Fresh] = Apply(revs[doc[t]])]
             /\ pc' = [pc EXCEPT ![t] = "ws_insert"]
             /\ UNCHANGED res
        ELSE /\ Finish(t, fetch_object(read_document))
             /\ UNCHANGED <<editor, sessDoc, content>>
    /\ UNCHANGED <<regs, stopped, op, doc, added, logged, history, during>>
    /\ UNCHANGED <<revs, arg, out, resetDone, seenReset, calls, wsvars>>

\* make_editor: self.ws_data_receivers.insert(doc_id, doc_editor.ws_handler())
make_editor_ws_insert(t) ==
    /\ op[t] \in Openers /\ pc[t] = "ws_insert"
    /\ ~RefHeld(doc[t])
    /\ ws_data_receivers' = insert(ws_data_receivers, doc[t], editor[t])
    /\ insertedAt' = [insertedAt EXCEPT ![editor[t]] = published]
    /\ added' = [added EXCEPT ![t] = TRUE]
    /\ pc' = [pc EXCEPT ![t] = "handlers_insert"]
    /\ UNCHANGED <<inner, world, op, doc, editor, res, logged, history, during, edits>>
    /\ UNCHANGED <<alive, lpc, queue, published, delivered>>

\* make_editor: self.document_handlers.insert(doc_id, &doc_editor); Ok(doc_editor)
make_editor_insert(t) ==
    /\ op[t] \in Openers /\ pc[t] = "handlers_insert"
    /\ inner' = insert(inner, doc[t], editor[t])
    /\ GetEditorReturns(t)
    /\ lastOpen' = [lastOpen EXCEPT ![doc[t]] = editor[t]]
    /\ UNCHANGED <<ws_data_receivers, world, op, doc, editor, added, logged,
                   prevOpen, closedSess, snap, noOpenSince>>
    /\ UNCHANGED <<during, edits, wsvars>>

(***************************************************************************)
(* close_document and delete                                               *)
(***************************************************************************)

\* A task starts the call `name`, or goes on with it.
Called(t, name) ==
    IF pc[t] = "idle"
    THEN op' = [op EXCEPT ![t] = name]
    ELSE op[t] = name /\ UNCHANGED op

\* A remove step on doc_id d ends the run of opens without a close between.
RemoveSeen(t, d) ==
    /\ lastOpen' = [lastOpen EXCEPT ![d] = None]
    /\ prevOpen' = [u \in Tasks |-> IF u # t /\ doc[u] = d THEN None ELSE prevOpen[u]]

\* The call returns Ok(()): the opens that had returned before it started are
\* now followed by a returned close.
RemoveReturned(t, d) ==
    /\ closedSess' = [closedSess EXCEPT ![d] = IF snap[t] # None THEN snap[t] ELSE @]
    /\ noOpenSince' = [noOpenSince EXCEPT ![d] = TRUE]

\* DocumentEditorHandlers::remove, `self.get(id)`: the contains test.
handlers_remove_contains(t, d) ==
    /\ pc[t] = "idle"
    /\ doc' = [doc EXCEPT ![t] = d]
    /\ snap' = [snap EXCEPT ![t] = lastOpen[d]]
    /\ pc' = [pc EXCEPT ![t] = IF contains(inner, d) THEN "remove_get" ELSE "inner_remove"]
    /\ during' = [during EXCEPT ![t] = OpensInFlight(d)]
    /\ RemoveSeen(t, d)
    /\ UNCHANGED <<regs, world, editor, res, added, logged, closedSess, noOpenSince>>
    /\ UNCHANGED <<edits, wsvars>>

\* DocumentEditorHandlers::remove, `self.get(id)`: the unwrap of the entry, and
\* editor.stop() on it.
handlers_remove_stop(t) ==
    /\ pc[t] = "remove_get"
    /\ IF contains(inner, doc[t])
       THEN /\ editor' = [editor EXCEPT ![t] = get(inner, doc[t])]
            /\ stopped' = stopped \cup {get(inner, doc[t])}
            /\ pc' = [pc EXCEPT ![t] = "inner_remove"]
            /\ UNCHANGED res
       ELSE /\ Finish(t, "panic")
            /\ UNCHANGED <<editor, stopped>>
    /\ RemoveSeen(t, doc[t])
    /\ UNCHANGED <<regs, sessDoc, doc, added, logged, closedSess, snap, noOpenSince>>
    /\ UNCHANGED <<during, edits, wsvars>>

\* DocumentEditorHandlers::remove, `self.inner.remove(&doc_id)`.
handlers_remove_entry(t) ==
    /\ pc[t] = "inner_remove"
    /\ inner' = remove(inner, doc[t])
    /\ pc' = [pc EXCEPT ![t] = "ws_remove"]
    /\ RemoveSeen(t, doc[t])
    /\ UNCHANGED <<ws_data_receivers, world, doc, editor, res, added, logged,
                   closedSess, snap, noOpenSince>>
    /\ UNCHANGED <<during, edits, wsvars>>

\* `self.ws_data_receivers.remove(doc_id); Ok(())`.
receivers_remove_entry(t) ==
    /\ pc[t] = "ws_remove"
    /\ ~RefHeld(doc[t])
    /\ ws_data_receivers' = remove(ws_data_receivers, doc[t])
    /\ Finish(t, "ok")
    /\ RemoveSeen(t, doc[t])
    /\ RemoveReturned(t, doc[t])
    /\ UNCHANGED <<inner, world, doc, editor, added, logged, snap>>
    /\ UNCHANGED <<during, edits, wsvars>>

\* close_document(doc_id): document_handlers.remove, ws_data_receivers.remove, Ok(()).
close_document(t) ==
    \/ \E d \in Docs : handlers_remove_contains(t, d)
    \/ handlers_remove_stop(t)
    \/ handlers_remove_entry(t)
    \/ receivers_remove_entry(t)

\* delete that leaves the receiver registered.
delete_keeps_receiver(t) ==
    \/ \E d \in Docs : handlers_remove_contains(t, d)
    \/ handlers_remove_stop(t)
    \/ handlers_remove_entry(t)
    \/ /\ pc[t] = "ws_remove"
       /\ Finish(t, "ok")
       /\ RemoveSeen(t, doc[t])
       /\ RemoveReturned(t, doc[t])
       /\ UNCHANGED <<regs, world, doc, editor, added, logged, snap>>
       /\ UNCHANGED <<during, edits, wsvars>>

\* delete(doc_id): document_handlers.remove, ws_data_receivers.remove, Ok(()).
delete(t) ==
    \/ \E d \in Docs : handlers_remove_contains(t, d)
    \/ handlers_remove_stop(t)
    \/ handlers_remove_entry(t)
    \/ receivers_remove_entry(t)

(***************************************************************************)
(* receive_ws_data                                                         *)
(***************************************************************************)

\* receive_ws_data(data): the bytes are parsed; a parse failure is logged. The
\* receiver of object_id is looked up: none is logged, one is called, with the
\* Ref on its entry held while the call is awaited.
receive_ws_data(t) ==
    /\ pc[t] = "idle"
    /\ op' = [op EXCEPT ![t] = "receive_ws_data"]
    /\ \E parsed \in BOOLEAN :
        IF ~parsed
        THEN /\ logged' = [logged EXCEPT ![t] = "parser_failed"]
             /\ Finish(t, "ok")
             /\ UNCHANGED <<doc, editor>>
        ELSE \E d \in Docs :
             /\ doc' = [doc EXCEPT ![t] = d]
             /\ IF contains(ws_data_receivers, d)
                THEN /\ editor' = [editor EXCEPT ![t] = get(ws_data_receivers, d)]
                     /\ pc' = [pc EXCEPT ![t] = "handler"]
                     /\ UNCHANGED <<res, logged>>
                ELSE /\ logged' = [logged EXCEPT ![t] = "no_handler"]
                     /\ Finish(t, "ok")
                     /\ UNCHANGED editor
    /\ UNCHANGED <<regs, world, added, history, during, edits, wsvars>>

\* receive_ws_data that unregisters a receiver whose call returned Err.
receive_ws_data_handler_unregisters(t) ==
    /\ op[t] = "receive_ws_data" /\ pc[t] = "handler"
    /\ \E handled \in BOOLEAN :
        /\ logged' = [logged EXCEPT ![t] = IF handled THEN "none" ELSE "handler_error"]
        /\ ws_data_receivers' =
             IF handled THEN ws_data_receivers ELSE remove(ws_data_receivers, doc[t])
    /\ Finish(t, "ok")
    /\ UNCHANGED <<inner, world, op, doc, editor, added, history, during, edits, wsvars>>

\* handler.receive_ws_data(data).await returns Ok or Err; the Err is logged.
receive_ws_data_handler(t) ==
    /\ op[t] = "receive_ws_data" /\ pc[t] = "handler"
    /\ \E handled \in BOOLEAN :
        logged' = [logged EXCEPT ![t] = IF handled THEN "none" ELSE "handler_error"]
    /\ Finish(t, "ok")
    /\ UNCHANGED <<regs, world, op, doc, editor, added, history, during, edits, wsvars>>

(***************************************************************************)
(* The callers                                                              *)
(***************************************************************************)

\* The caller takes the result; the task is free for the next call.
Return(t) ==
    /\ pc[t] = "done"
    /\ pc' = [pc EXCEPT ![t] = "idle"]
    /\ op' = [op EXCEPT ![t] = "none"]
    /\ doc' = [doc EXCEPT ![t] = None]
    /\ editor' = [editor EXCEPT ![t] = None]
    /\ res' = [res EXCEPT ![t] = "none"]
    /\ added' = [added EXCEPT ![t] = FALSE]
    /\ logged' = [logged EXCEPT ![t] = "none"]
    /\ prevOpen' = [prevOpen EXCEPT ![t] = None]
    /\ snap' = [snap EXCEPT ![t] = None]
    /\ during' = [u \in Tasks |-> IF u = t THEN {} ELSE during[u] \ {t}]
    /\ arg' = [arg EXCEPT ![t] = <<>>]
    /\ out' = [out EXCEPT ![t] = {}]
    /\ seenReset' = [seenReset EXCEPT ![t] = {}]
    /\ UNCHANGED <<regs, world, lastOpen, closedSess, noOpenSince>>
    /\ UNCHANGED <<content, revs, resetDone, calls, wsvars>>

(***************************************************************************)
(* receive_local_delta                                                     *)
(***************************************************************************)

\* receive_local_delta(delta) is called: get_editor(&delta.doc_id).
receive_local_delta(t) ==
    /\ pc[t] = "idle"
    /\ calls < MaxCalls
    /\ calls' = calls + 1
    /\ op' = [op EXCEPT ![t] = "receive_local_delta"]
    /\ \E d \in Docs, delta \in Deltas :
        /\ arg' = [arg EXCEPT ![t] = delta]
        /\ seenReset' = [seenReset EXCEPT ![t] = IF delta = <<>> THEN resetDone[d] ELSE {}]
        /\ get_editor(t, d)

\* editor.compose_local_delta(delta_json).await?: the editor composes the
\* delta into its document and its revision manager appends the revision to
\* the history of (user_id, doc_id), or the composition fails.
compose_local_delta(t) ==
    /\ op[t] = "receive_local_delta" /\ pc[t] = "compose"
    /\ \/ /\ Len(compose(content[editor[t]], arg[t])) <= MaxLen
          /\ Len(revs[doc[t]] \o arg[t]) <= MaxLen
          /\ content' = [content EXCEPT ![editor[t]] = compose(content[editor[t]], arg[t])]
          /\ revs' = [revs EXCEPT ![doc[t]] = revs[doc[t]] \o arg[t]]
          /\ resetDone' = IF arg[t] = <<>> THEN resetDone
                                          ELSE [resetDone EXCEPT ![doc[t]] = {}]
          /\ pc' = [pc EXCEPT ![t] = "document_json"]
          /\ UNCHANGED res
       \/ /\ Finish(t, "err_compose")
          /\ UNCHANGED <<content, revs, resetDone>>
    /\ UNCHANGED <<regs, world, op, doc, editor, added, logged, history, during>>
    /\ UNCHANGED <<arg, out, seenReset, calls, wsvars>>

\* A receive_local_delta that answers with the delta it was given.
receive_local_delta_echo(t) ==
    /\ op[t] = "receive_local_delta" /\ pc[t] = "document_json"
    /\ \/ /\ out' = [out EXCEPT ![t] = {[doc_id |-> doc[t], delta_json |-> arg[t]]}]
          /\ Finish(t, "ok")
       \/ /\ Finish(t, "err_document_json")
          /\ UNCHANGED out
    /\ UNCHANGED <<regs, world, op, doc, editor, added, logged, history, during>>
    /\ UNCHANGED <<content, revs, arg, resetDone, seenReset, calls, wsvars>>

\* editor.document_json().await? and the DocumentDelta returned: doc_id is
\* delta.doc_id, delta_json the document in full.
receive_local_delta_return(t) ==
    /\ op[t] = "receive_local_delta" /\ pc[t] = "document_json"
    /\ \/ /\ out' = [out EXCEPT ![t] =
                       {[doc_id |-> doc[t],
                         delta_json |-> document_json(content[editor[t]])]}]
          /\ Finish(t, "ok")
       \/ /\ Finish(t, "err_document_json")
          /\ UNCHANGED out
    /\ UNCHANGED <<regs, world, op, doc, editor, added, logged, history, during>>
    /\ UNCHANGED <<content, revs, arg, resetDone, seenReset, calls, wsvars>>

(***************************************************************************)
(* reset_with_revisions                                                    *)
(***************************************************************************)

\* reset_with_revisions(doc_id, revisions) is called: db_pool()?, then
\* make_rev_manager: user_id()? and a RevisionManager of its own on the
\* cache of (user_id, doc_id). Neither registry is consulted.
reset_with_revisions(t) ==
    /\ pc[t] = "idle"
    /\ calls < MaxCalls
    /\ calls' = calls + 1
    /\ op' = [op EXCEPT ![t] = "reset_with_revisions"]
    /\ \E d \in Docs, revisions \in RevLists :
        /\ doc' = [doc EXCEPT ![t] = d]
        /\ arg' = [arg EXCEPT ![t] = revisions]
    /\ \E dbOk, userOk \in BOOLEAN :
        LET r == UserResult(dbOk, TRUE, userOk) IN
        IF r = "ok"
        THEN /\ pc' = [pc EXCEPT ![t] = "reset_object"]
             /\ UNCHANGED res
        ELSE Finish(t, r)
    /\ UNCHANGED <<regs, world, editor, added, logged, history, during>>
    /\ UNCHANGED <<content, revs, out, resetDone, seenReset, wsvars>>

\* rev_manager.reset_object(revisions).await?: the history of
\* (user_id, doc_id) becomes the given revisions, or the reset fails.
reset_object(t) ==
    /\ op[t] = "reset_with_revisions" /\ pc[t] = "reset_object"
    /\ \/ /\ revs' = [revs EXCEPT ![doc[t]] = arg[t]]
          /\ resetDone' = [resetDone EXCEPT ![doc[t]] = {arg[t]}]
          /\ Finish(t, "ok")
       \/ /\ Finish(t, "err_reset_object")
          /\ UNCHANGED <<revs, resetDone>>
    /\ UNCHANGED <<regs, world, op, doc, editor, added, logged, history, during>>
    /\ UNCHANGED <<content, arg, out, seenReset, calls, wsvars>>

(***************************************************************************)
(* init and listen_ws_state_changed                                        *)
(***************************************************************************)

\* The receivers registered: what receivers.iter() goes through.
Registered == {ws_data_receivers[d] : d \in {x \in Docs : contains(ws_data_receivers, x)}}

\* init(): listen_ws_state_changed spawns its task and init returns Ok(()).
\* Every call spawns one more.
init(l) ==
    /\ alive
    /\ lpc[l] = "unspawned"
    /\ \A k \in Listeners : k < l => lpc[k] # "unspawned"
    /\ lpc' = [lpc EXCEPT ![l] = "spawned"]
    /\ UNCHANGED <<regs, world, locals, history, during, edits>>
    /\ UNCHANGED <<alive, queue, published, insertedAt, delivered>>

\* The spawned task starts: web_socket.subscribe_state_changed().await.
subscribe_state_changed(l) ==
    /\ lpc[l] = "spawned"
    /\ lpc' = [lpc EXCEPT ![l] = "listening"]
    /\ queue' = [queue EXCEPT ![l] = <<>>]
    /\ UNCHANGED <<regs, world, locals, history, during, edits>>
    /\ UNCHANGED <<alive, published, insertedAt, delivered>>

\* The transport publishes a connection state: every subscription there is
\* gets it, none gets it later.
publish ==
    /\ published < MaxStates
    /\ published' = published + 1
    /\ queue' = [l \in Listeners |->
                    IF lpc[l] = "listening" THEN Append(queue[l], published + 1)
                                            ELSE queue[l]]
    /\ UNCHANGED <<regs, world, locals, history, during, edits>>
    /\ UNCHANGED <<alive, lpc, insertedAt, delivered>>

\* One turn of the loop: notify.recv().await yields the oldest state held
\* and connect_state_changed is called on every receiver of receivers.iter().
listen_ws_state_changed(l) ==
    /\ lpc[l] = "listening"
    /\ queue[l] # <<>>
    /\ queue' = [queue EXCEPT ![l] = Tail(queue[l])]
    /\ delivered' = [s \in Sessions |->
                        IF s \in Registered THEN Append(delivered[s], Head(queue[l]))
                                            ELSE delivered[s]]
    /\ UNCHANGED <<regs, world, locals, history, during, edits>>
    /\ UNCHANGED <<alive, lpc, published, insertedAt>>

\* The manager is dropped; no call borrows it. The spawned tasks hold their
\* own Arc of the transport and of ws_data_receivers.
drop_manager ==
    /\ alive
    /\ \A t \in Tasks : pc[t] = "idle"
    /\ alive' = FALSE
    /\ UNCHANGED <<regs, world, locals, history, during, edits>>
    /\ UNCHANGED <<lpc, queue, published, insertedAt, delivered>>

Next ==
    \/ \E t \in Tasks : open_document(t)
    \/ \E t \in Tasks : get_editor_hit(t)
    \/ \E t \in Tasks : make_editor_new(t)
    \/ \E t \in Tasks : make_editor_ws_insert(t)
    \/ \E t \in Tasks : make_editor_insert(t)
    \/ \E t \in Tasks : Called(t, "close_document") /\ close_document(t)
    \/ \E t \in Tasks : Called(t, "delete") /\ delete(t)
    \/ \E t \in Tasks : receive_ws_data(t)
    \/ \E t \in Tasks : receive_ws_data_handler(t)
    \/ \E t \in Tasks : Return(t)

Spec == Init /\ [][Next]_vars

\* The manager under local edits and resets.
NextEdit ==
    \/ \E t \in Tasks : receive_local_delta(t)
    \/ \E t \in Tasks : get_editor_hit(t)
    \/ \E t \in Tasks : make_editor_new(t)
    \/ \E t \in Tasks : make_editor_ws_insert(t)
    \/ \E t \in Tasks : make_editor_insert(t)
    \/ \E t \in Tasks : compose_local_delta(t)
    \/ \E t \in Tasks : receive_local_delta_return(t)
    \/ \E t \in Tasks : reset_with_revisions(t)
    \/ \E t \in Tasks : reset_object(t)
    \/ \E t \in Tasks : Return(t)

SpecEdit == Init /\ [][NextEdit]_vars

\* The manager with its connection state listeners.
NextWs ==
    \/ \E l \in Listeners : init(l)
    \/ \E l \in Listeners : subscribe_state_changed(l)
    \/ publish
    \/ \E l \in Listeners : listen_ws_state_changed(l)
    \/ drop_manager
    \/ \E t \in Tasks : alive /\ open_document(t)
    \/ \E t \in Tasks : get_editor_hit(t)
    \/ \E t \in Tasks : make_editor_new(t)
    \/ \E t \in Tasks : make_editor_ws_insert(t)
    \/ \E t \in Tasks : make_editor_insert(t)
    \/ \E t \in Tasks : Return(t)

SpecWs == Init /\ [][NextWs]_vars

(***************************************************************************)
(* Properties                                                              *)
(***************************************************************************)

\* A call other than t's is running on doc_id d.
OtherRunning(t, d) ==
    \E u \in Tasks \ {t} : doc[u] = d /\ pc[u] \notin {"idle", "done"}

\* Task t returns from open_document with Ok in this step.
OpenReturnsOk(t) ==
    /\ op'[t] = "open_document"
    /\ pc[t] # "done" /\ pc'[t] = "done"
    /\ res'[t] = "ok"

\* C1: two open_document(doc_id) calls that both succeed, do not overlap, and
\* have no close_document or delete step on doc_id from the start of the first
\* to the return of the second, return the same editor.
C1_SecondOpenIsCacheHit ==
    \A t \in Tasks :
        (op[t] = "open_document" /\ pc[t] = "done" /\ res[t] = "ok" /\ prevOpen[t] # None)
            => editor[t] = prevOpen[t]

\* C2: a step in which open_document fails with an error of the user or of
\* the fetch changes neither registry, the failing call has inserted no
\* entry into either, and nothing of the failure is kept: the editors and
\* the registries are as they were, so the next open_document misses the
\* cache and constructs again.
C2_FailedOpenLeavesNoEntry ==
    [][\A t \in Tasks :
        (op'[t] = "open_document" /\ res[t] = "none" /\ res'[t] \in Errors)
            => /\ inner' = inner
               /\ ws_data_receivers' = ws_data_receivers
               /\ sessDoc' = sessDoc
               /\ stopped' = stopped
               /\ ~added'[t]
               /\ editor'[t] = None]_vars

\* C2 witness: an open_document has failed with RecordNotFound and doc_id is
\* in neither registry.
C2_Witness ==
    \E t \in Tasks :
        /\ op[t] = "open_document" /\ pc[t] = "done"
        /\ res[t] = "err_record_not_found"
        /\ ~contains(inner, doc[t])
        /\ ~contains(ws_data_receivers, doc[t])

\* C3: a receive_ws_data for object_id = doc_id, started after a
\* close_document(doc_id) returned and before any later open_document(doc_id)
\* started (or with doc_id never opened), drops the message: no receiver is
\* called, and the call returns normally.
C3_DroppedAfterClose ==
    [][\A t \in Tasks :
        (pc[t] = "idle" /\ op'[t] = "receive_ws_data" /\ doc'[t] # None
            /\ noOpenSince[doc'[t]])
            => (pc'[t] = "done" /\ res'[t] = "ok" /\ logged'[t] = "no_handler")]_vars

\* C4: every step of receive_ws_data leaves both registries unchanged and the
\* call never ends in an error; an envelope is forwarded exactly when its
\* object_id has a receiver registered, to that receiver, and is otherwise
\* logged as having no handler.
C4_DispatchNeverFails ==
    [][\A t \in Tasks :
        (op'[t] = "receive_ws_data" /\ pc'[t] # pc[t])
            => /\ inner' = inner
               /\ ws_data_receivers' = ws_data_receivers
               /\ res'[t] \in {"none", "ok"}
               /\ (pc[t] = "idle" /\ doc'[t] # None)
                    => /\ (pc'[t] = "handler") = contains(ws_data_receivers, doc'[t])
                       /\ pc'[t] = "handler" => editor'[t] = get(ws_data_receivers, doc'[t])
                       /\ pc'[t] # "handler" => logged'[t] = "no_handler"]_vars

\* C4 witness: a dispatch whose receiver returned an error has completed
\* normally, with the receiver still registered.
C4_Witness ==
    \E t \in Tasks :
        /\ op[t] = "receive_ws_data" /\ pc[t] = "done"
        /\ res[t] = "ok" /\ logged[t] = "handler_error"
        /\ get(ws_data_receivers, doc[t]) = editor[t]

\* C5: in every reachable state the receiver registered for a doc_id is the
\* receiver of the editor document_handlers holds for it, and a doc_id
\* without an editor has no receiver.
C5_ReceiverMatchesEditor ==
    \A d \in Docs : get(ws_data_receivers, d) = get(inner, d)

\* C6: the editor a close_document or delete removes from document_handlers
\* has been stopped, by that call, before the removal.
C6_StoppedBeforeRemoval ==
    [][\A t \in Tasks :
        (pc[t] = "inner_remove" /\ pc'[t] = "ws_remove" /\ contains(inner, doc[t]))
            => /\ editor[t] = get(inner, doc[t])
               /\ get(inner, doc[t]) \in stopped]_vars

\* C7: at no time do two distinct constructed, not yet stopped editors exist
\* for the same doc_id.
C7_SingleConstruction ==
    \A s1, s2 \in Sessions :
        (sessDoc[s1] # None /\ sessDoc[s1] = sessDoc[s2]
            /\ s1 \notin stopped /\ s2 \notin stopped)
            => s1 = s2

\* C8: close_document never ends otherwise than with Ok; none of its steps
\* changes the entries of another doc_id, nor anything when doc_id was never
\* opened; and when it returns with no other call on doc_id running, doc_id
\* is in neither registry.
C8_CloseRemovesBoth ==
    [][\A t \in Tasks :
        (op'[t] = "close_document" /\ pc'[t] # pc[t])
            => /\ res'[t] \in {"none", "ok"}
               /\ \A e \in Docs \ {doc'[t]} :
                    inner'[e] = inner[e] /\ ws_data_receivers'[e] = ws_data_receivers[e]
               /\ (\A s \in Sessions : sessDoc[s] # doc'[t])
                    => (inner' = inner /\ ws_data_receivers' = ws_data_receivers)
               /\ (pc'[t] = "done" /\ ~OtherRunning(t, doc'[t]))
                    => /\ ~contains(inner', doc'[t])
                       /\ ~contains(ws_data_receivers', doc'[t])]_vars

\* C9: an open_document(doc_id) that starts after a close_document(doc_id)
\* returned, which itself started after an open_document(doc_id) returned an
\* editor, returns on success a different editor, and the receiver registered
\* for doc_id when it returns is that of the editor it returns.
C9_ReopenIsNewSession ==
    [][\A t \in Tasks :
        (OpenReturnsOk(t) /\ snap[t] # None)
            => /\ editor'[t] # snap[t]
               /\ get(ws_data_receivers', doc[t]) = editor'[t]]_vars

\* C10: delete and close_document take the same steps: from any state, a step
\* of the one is a step of the other, with the same result, the same editor
\* stopped and the same registries after it.
C10_DeleteIsClose ==
    [][\A t \in Tasks : close_document(t) <=> delete(t)]_vars

\* C10 witness: a delete has stopped the open editor of its doc_id, removed
\* both entries and returned Ok.
C10_Witness ==
    \E t \in Tasks :
        /\ op[t] = "delete" /\ pc[t] = "done" /\ res[t] = "ok"
        /\ editor[t] # None /\ editor[t] \in stopped
        /\ ~contains(inner, doc[t])
        /\ ~contains(ws_data_receivers, doc[t])

\* C11: a receive_local_delta works on the session of delta.doc_id; its
\* composition step composes the given delta into that editor's document,
\* the empty delta changing no document; a call that returns Ok returns the
\* DocumentDelta of delta.doc_id and of the editor's document in full as it
\* is at that moment, the given delta composed into it; a failed
\* composition changes no document and ends the call with its error; and a
\* call that ends in an error returns no DocumentDelta.
C11_LocalDeltaReturnsDocument ==
    [][\A t \in Tasks :
        (op'[t] = "receive_local_delta" /\ pc'[t] # pc[t])
            => /\ (pc[t] = "compose" /\ pc'[t] = "document_json")
                    => /\ sessDoc[editor[t]] = doc[t]
                       /\ content'[editor[t]] = content[editor[t]] \o arg[t]
                       /\ arg[t] = <<>> => content' = content
               /\ (pc[t] = "compose" /\ pc'[t] = "done")
                    => (res'[t] = "err_compose" /\ content' = content)
               /\ (pc'[t] = "done" /\ res'[t] = "ok")
                    => /\ out'[t] = {[doc_id |-> doc[t], delta_json |-> content[editor[t]]]}
                       /\ \A i \in 1 .. Len(arg[t]) :
                            \E k \in 1 .. Len(content[editor[t]]) :
                                content[editor[t]][k] = arg[t][i]
               /\ (pc'[t] = "done" /\ res'[t] # "ok") => out'[t] = {}]_vars

\* C11 witness: a receive_local_delta on a document that already had content
\* has returned a DocumentDelta of two operations, its own delta the last.
C11_Witness ==
    \E t \in Tasks :
        /\ op[t] = "receive_local_delta" /\ pc[t] = "done" /\ res[t] = "ok"
        /\ arg[t] # <<>>
        /\ \E o \in out[t] :
            /\ o.doc_id = doc[t]
            /\ Len(o.delta_json) = 2
            /\ o.delta_json[2] = arg[t][1]

\* C12: a reset_with_revisions that returns Ok leaves the history of doc_id
\* equal to the revisions given; and a receive_local_delta of the empty
\* delta that started after such a reset returned, with no write to the
\* history since, returns the document those revisions yield.
C12_ResetReplacesHistory ==
    [][\A t \in Tasks :
        /\ (op[t] = "reset_with_revisions" /\ pc[t] = "reset_object" /\ res'[t] = "ok")
                => revs'[doc[t]] = arg[t]
        /\ (op[t] = "receive_local_delta" /\ pc[t] = "document_json" /\ res'[t] = "ok"
                /\ seenReset[t] # {} /\ resetDone[doc[t]] = seenReset[t])
                => \A o \in out'[t] : \A rs \in seenReset[t] : o.delta_json = Apply(rs)]_vars

\* C17: while a reset_with_revisions of doc_id is between making its
\* revision manager and the end of reset_object, no other call writes the
\* revision history of doc_id or loads a document from it.
C17_ResetIsExclusive ==
    [][\A t, u \in Tasks :
        (op[t] = "reset_with_revisions" /\ pc[t] = "reset_object"
            /\ u # t /\ doc[u] = doc[t])
            => /\ ~(pc[u] = "compose" /\ pc'[u] = "document_json")
               /\ ~(pc[u] = "new" /\ pc'[u] = "ws_insert")]_vars

\* C13: no receiver is ever given a state published before it was inserted
\* into ws_data_receivers; and every state published is handed to the
\* listener of every init that has returned, which gives it to every
\* receiver registered when it takes it.
C13_DeliveredIffPublishedAfter ==
    [][/\ \A s \in Sessions : \A i \in 1 .. Len(delivered'[s]) :
            delivered'[s][i] > insertedAt'[s]
       /\ published' # published
            => \A l \in Listeners :
                lpc[l] # "unspawned" => queue'[l] = Append(queue[l], published')
       /\ \A l \in Listeners :
            (lpc[l] = "listening" /\ queue'[l] # queue[l] /\ published' = published)
                => \A s \in Registered : delivered'[s] = Append(delivered[s], Head(queue[l]))]_vars

\* C14: the states a receiver was given are in publication order, none
\* given after a later one, however many times init was called.
C14_DeliveredInOrder ==
    \A s \in Sessions :
        \A i, j \in 1 .. Len(delivered[s]) :
            i < j => delivered[s][i] <= delivered[s][j]

\* C18: once the manager is dropped no receiver is given a state.
C18_NoForwardAfterDrop ==
    [][~alive => delivered' = delivered]_vars

\* No call of the manager is in flight.
Quiescent == \A t \in Tasks : pc[t] \in {"idle", "done"}

\* C15: the step in which receive_ws_data finds the receiver of its
\* object_id and calls it never finds the receiver of an editor whose stop
\* has been invoked.
C15_NoForwardToStopped ==
    [][\A t \in Tasks :
        (op'[t] = "receive_ws_data" /\ pc[t] = "idle" /\ pc'[t] = "handler")
            => editor'[t] \notin stopped]_vars

\* C16: when a close_document or delete that started while an
\* open_document of the same doc_id was in flight has completed, and that
\* open has completed too, doc_id is in neither registry and the editor the
\* open built has been stopped.
C16_CloseAfterOpenInFlight ==
    \A t, u \in Tasks :
        (op[t] \in {"close_document", "delete"} /\ pc[t] = "done"
            /\ u \in during[t] /\ op[u] = "open_document" /\ pc[u] = "done")
            => /\ ~contains(inner, doc[t])
               /\ ~contains(ws_data_receivers, doc[t])
               /\ editor[u] # None => editor[u] \in stopped

\* C19: in every quiescent state every doc_id with an editor in
\* document_handlers has a receiver in ws_data_receivers.
C19_OpenHasReceiver ==
    Quiescent => \A d \in Docs : contains(inner, d) => contains(ws_data_receivers, d)

\* C20: in every quiescent state with doc_id absent from document_handlers,
\* every editor constructed for doc_id has been stopped.
C20_NoSessionLeaked ==
    Quiescent =>
        \A d \in Docs :
            ~contains(inner, d) => \A s \in Sessions : sessDoc[s] = d => s \in stopped

====
